---- MODULE Spec2Model ----
(***************************************************************************)
(* MobileScratchpad (src/src/web/mobile/MobileScratchpad.tsx): the         *)
(* view/edit state of the scratchpad, its prop-sync effect, the checkbox   *)
(* toggle, the task counters and the auto-run buttons.                     *)
(*                                                                         *)
(* A text is a sequence of one-character strings.  One step of the model   *)
(* is one event (a click, a keystroke in the textarea, a change of a prop  *)
(* by the owner) together with the render and the effects that follow it.  *)
(***************************************************************************)
EXTENDS Integers, Sequences, FiniteSets

VARIABLES
  mode,           \* useState 'view' | 'edit'
  localContent,   \* useState(content): the draft
  content,        \* prop: the committed text, owned by the parent
  autoRunState,   \* prop: [present, isRunning, isStopping]
  isSessionBusy,  \* prop
  isOpen,         \* prop
  ownerApplies,   \* whether the parent writes onContentChange's argument to content
  fired,          \* the callbacks the last event invoked, in order
  lastOp,         \* the last event, with mode, draft and content prop as it found them
  input,          \* harness: the text the handler was first applied to
  applied         \* harness: the line indexes handleToggleTask was applied to

vars == <<mode, localContent, content, autoRunState, isSessionBusy, isOpen,
          ownerApplies, fired, lastOp, input, applied>>

(* ------------------------------ bounds -------------------------------- *)

\* longest text the harness enumerates
MaxLen == 5
\* largest line index the harness passes to handleToggleTask
MaxIdx == 1
\* how often the harness applies handleToggleTask to one line
MaxApply == 2

(* ------------------------------ texts --------------------------------- *)

\* \s of the patterns
WhiteSpace == {" ", "\t", "\n", "\r"}

\* what '.' does not match, and where ^ and $ match under the m flag
LineTerminators == {"\n", "\r"}

\* x under the i flag
IsX(c) == c \in {"x", "X"}

Max(S) == CHOOSE m \in S : \A k \in S : k <= m

Min(S) == CHOOSE m \in S : \A k \in S : m <= k

\* the first position >= i of s that holds no whitespace (Len(s)+1 if none): a greedy \s*
SkipSpace(s, i) ==
  IF i > Len(s) THEN i
  ELSE Min({j \in i..(Len(s) + 1) : j = Len(s) + 1 \/ s[j] \notin WhiteSpace})

\* content.split('\n')
RECURSIVE SplitLines(_)
SplitLines(s) ==
  LET nl == {i \in 1..Len(s) : s[i] = "\n"}
  IN  IF nl = {} THEN <<s>>
      ELSE <<SubSeq(s, 1, Min(nl) - 1)>> \o SplitLines(SubSeq(s, Min(nl) + 1, Len(s)))

\* lines.join('\n')
RECURSIVE JoinLines(_)
JoinLines(ls) ==
  IF Len(ls) = 0 THEN <<>>
  ELSE IF Len(ls) = 1 THEN ls[1]
  ELSE ls[1] \o <<"\n">> \o JoinLines(Tail(ls))

\* (\s*)-\s*\[\s*\] matched from position p: the position of "]", 0 if no match
UncheckedMarkerEnd(s, p) ==
  LET a == SkipSpace(s, p)
      b == SkipSpace(s, a + 1)
      c == SkipSpace(s, b + 1)
  IN  IF /\ c <= Len(s)
         /\ s[a] = "-"
         /\ s[b] = "["
         /\ s[c] = "]"
      THEN c ELSE 0

\* (\s*)-\s*\[x\] (flag i) matched from position p: the position of "]", 0 if no match
CheckedMarkerEnd(s, p) ==
  LET a == SkipSpace(s, p)
      b == SkipSpace(s, a + 1)
  IN  IF /\ b + 2 <= Len(s)
         /\ s[a] = "-"
         /\ s[b] = "["
         /\ IsX(s[b + 1])
         /\ s[b + 2] = "]"
      THEN b + 2 ELSE 0

\* \s*(.+)$ without the m flag, matched after position c of a line: some whitespace,
\* then at least one character, none a line terminator, up to the end
HasTaskText(line, c) ==
  \E k \in (c + 1)..Len(line) :
    /\ \A j \in (c + 1)..(k - 1) : line[j] \in WhiteSpace
    /\ \A j \in k..Len(line) : line[j] \notin LineTerminators

\* line.match(/^(\s*)-\s*\[\s*\]\s*(.+)$/)
MatchUncheckedLine(line) ==
  /\ UncheckedMarkerEnd(line, 1) > 0
  /\ HasTaskText(line, UncheckedMarkerEnd(line, 1))

\* line.match(/^(\s*)-\s*\[x\]\s*(.+)$/i)
MatchCheckedLine(line) ==
  /\ CheckedMarkerEnd(line, 1) > 0
  /\ HasTaskText(line, CheckedMarkerEnd(line, 1))

\* the renderer draws a toggle button on line index i (0-based) of text
HasToggleButton(text, i) ==
  /\ i + 1 \in DOMAIN SplitLines(text)
  /\ \/ MatchUncheckedLine(SplitLines(text)[i + 1])
     \/ MatchCheckedLine(SplitLines(text)[i + 1])

\* a replacement that forgets $1, the indentation (a fault C7 must detect)
ReplacePrefix_DropsIndent(line, c, marker) ==
  marker \o SubSeq(line, SkipSpace(line, c + 1), Len(line))

\* line.replace(/^(\s*)-\s*\[..\]\s*/, '$1' + marker), c the position of "]"
ReplacePrefix(line, c, marker) ==
  SubSeq(line, 1, SkipSpace(line, 1) - 1) \o marker
    \o SubSeq(line, SkipSpace(line, c + 1), Len(line))

CheckedMarker == <<"-", " ", "[", "x", "]", " ">>

UncheckedMarker == <<"-", " ", "[", " ", "]", " ">>

\* the two branches of handleToggleTask on one line
ToggleLine(line) ==
  IF UncheckedMarkerEnd(line, 1) > 0
    THEN ReplacePrefix(line, UncheckedMarkerEnd(line, 1), CheckedMarker)
  ELSE IF CheckedMarkerEnd(line, 1) > 0
    THEN ReplacePrefix(line, CheckedMarkerEnd(line, 1), UncheckedMarker)
  ELSE line

\* newContent of handleToggleTask(lineIndex); lines[lineIndex] of an index out of
\* range is undefined, which matches neither pattern
ToggledContent(text, lineIndex) ==
  LET lines == SplitLines(text)
  IN  IF lineIndex + 1 \in DOMAIN lines
      THEN JoinLines([lines EXCEPT ![lineIndex + 1] = ToggleLine(@)])
      ELSE JoinLines(lines)

(* --------------------------- task counters ---------------------------- *)

\* ^ under the m flag
LineStart(s, p) == p = 1 \/ s[p - 1] \in LineTerminators

\* the last position of the run of non-terminators that holds k: where greedy .+ ends
EndOfLine(s, k) ==
  Max({e \in k..Len(s) : \A j \in k..e : s[j] \notin LineTerminators})

\* \s*.+$ under the m flag after the marker ending at c: the end of the match,
\* 0 if none. \s* is greedy and runs over line breaks; when only whitespace is
\* left it gives back until .+ finds a character that is no line terminator
TextEnd(s, c) ==
  LET k0   == SkipSpace(s, c + 1)
      back == {k \in (c + 1)..Len(s) : s[k] \notin LineTerminators}
  IN  IF k0 <= Len(s) THEN EndOfLine(s, k0)
      ELSE IF back = {} THEN 0
      ELSE EndOfLine(s, Max(back))

\* one attempt of /^[\s]*-\s*\[\s*\]\s*.+$/m at position p: the end of the match, 0 if none
UncheckedMatchEnd(s, p) ==
  IF LineStart(s, p) /\ UncheckedMarkerEnd(s, p) > 0
  THEN TextEnd(s, UncheckedMarkerEnd(s, p)) ELSE 0

\* one attempt of /^[\s]*-\s*\[x\]\s*.+$/im at position p
CheckedMatchEnd(s, p) ==
  IF LineStart(s, p) /\ CheckedMarkerEnd(s, p) > 0
  THEN TextEnd(s, CheckedMarkerEnd(s, p)) ELSE 0

\* content.match(/.../gm).length, the scan resumed at position q
RECURSIVE CountUncheckedFrom(_, _)
CountUncheckedFrom(s, q) ==
  LET starts == {p \in q..Len(s) : UncheckedMatchEnd(s, p) > 0}
  IN  IF starts = {} THEN 0
      ELSE 1 + CountUncheckedFrom(s, UncheckedMatchEnd(s, Min(starts)) + 1)

RECURSIVE CountCheckedFrom(_, _)
CountCheckedFrom(s, q) ==
  LET starts == {p \in q..Len(s) : CheckedMatchEnd(s, p) > 0}
  IN  IF starts = {} THEN 0
      ELSE 1 + CountCheckedFrom(s, CheckedMatchEnd(s, Min(starts)) + 1)

countUncheckedTasks(text) == IF Len(text) = 0 THEN 0 ELSE CountUncheckedFrom(text, 1)

countCheckedTasks(text) == IF Len(text) = 0 THEN 0 ELSE CountCheckedFrom(text, 1)

uncheckedCount == countUncheckedTasks(localContent)

checkedCount == countCheckedTasks(localContent)

totalTasks == uncheckedCount + checkedCount

(* ------------------------------ props --------------------------------- *)

\* autoRunState?: AutoRunState | null
NoAutoRun == [present |-> FALSE, isRunning |-> FALSE, isStopping |-> FALSE]

AutoRunStates ==
  {NoAutoRun} \cup [present : {TRUE}, isRunning : BOOLEAN, isStopping : BOOLEAN]

\* autoRunState?.isRunning || false
isAutoRunning == autoRunState.present /\ autoRunState.isRunning

\* autoRunState?.isStopping || false
isStopping == autoRunState.present /\ autoRunState.isStopping

\* a start guard that forgets the session-busy flag (a fault C6 must detect)
canStartAutoRun_IgnoresBusy == ~isAutoRunning /\ uncheckedCount > 0

canStartAutoRun == ~isAutoRunning /\ ~isSessionBusy /\ uncheckedCount > 0

\* values of the content prop and of the textarea
T_Empty == <<>>

T_Plain == <<"a">>

T_Task == <<"-", " ", "[", " ", "]", " ", "a">>

T_Two == <<"-", " ", "[", " ", "]", " ", "A", "\n", "-", " ", "[", "x", "]", " ", "B">>

Texts == {T_Empty, T_Plain, T_Task, T_Two}

(* ----------------------------- callbacks ------------------------------ *)

NoArg == <<>>

Fire(cb, arg) == [cb |-> cb, arg |-> arg]

\* the content prop after onContentChange(text): the owner writes it back, or not
OwnerContent(text) == IF ownerApplies THEN text ELSE content

\* useEffect(() => setLocalContent(content), [content]) after a render that set the
\* draft to newLocal and received newContent
AfterSync(newLocal, newContent) ==
  IF newContent # content THEN newContent ELSE newLocal

\* the event, and what it found
Snap(op, idx) ==
  [op |-> op, idx |-> idx, mode |-> mode, draft |-> localContent, prop |-> content]

(* ----------------------------- handlers ------------------------------- *)

handleToggleTask(lineIndex) ==
  LET newContent == ToggledContent(localContent, lineIndex)
  IN  /\ fired' = <<Fire("onContentChange", newContent)>>
      /\ content' = OwnerContent(newContent)
      /\ localContent' = AfterSync(newContent, content')
      /\ UNCHANGED mode

\* a save that commits the content prop instead of the draft (a fault C4 must detect)
handleSave_CommitsProp ==
  /\ fired' = <<Fire("onContentChange", content)>>
  /\ content' = OwnerContent(content)
  /\ localContent' = AfterSync(localContent, content')
  /\ mode' = "view"

handleSave ==
  /\ fired' = <<Fire("onContentChange", localContent)>>
  /\ content' = OwnerContent(localContent)
  /\ localContent' = AfterSync(localContent, content')
  /\ mode' = "view"

\* a cancel that leaves the draft in place (a fault C5 must detect)
handleCancel_KeepsDraft ==
  /\ mode' = "view"
  /\ fired' = <<>>
  /\ UNCHANGED <<localContent, content>>

handleCancel ==
  /\ localContent' = content
  /\ mode' = "view"
  /\ fired' = <<>>
  /\ UNCHANGED content

(* ------------------------------ events -------------------------------- *)

props == <<autoRunState, isSessionBusy, isOpen>>

harness == <<ownerApplies, input, applied>>

\* <button onClick={() => setMode('view')}>
ViewClick ==
  /\ isOpen
  /\ mode' = "view"
  /\ fired' = <<>>
  /\ lastOp' = Snap("view", -1)
  /\ UNCHANGED <<localContent, content, props, harness>>

\* an Edit button that is never disabled (a fault C10 must detect)
EditEnabled_Always == TRUE

\* <button onClick={() => setMode('edit')} disabled={isAutoRunning}>
EditEnabled == ~isAutoRunning

EditClick ==
  /\ isOpen
  /\ EditEnabled
  /\ mode' = "edit"
  /\ fired' = <<>>
  /\ lastOp' = Snap("edit", -1)
  /\ UNCHANGED <<localContent, content, props, harness>>

\* <textarea onChange={(e) => setLocalContent(e.target.value)}>, drawn in edit mode
TextareaChange(text) ==
  /\ isOpen
  /\ mode = "edit"
  /\ localContent' = text
  /\ fired' = <<>>
  /\ lastOp' = Snap("type", -1)
  /\ UNCHANGED <<mode, content, props, harness>>

\* <button onClick={handleSave}>, drawn in edit mode
SaveClick ==
  /\ isOpen
  /\ mode = "edit"
  /\ handleSave
  /\ lastOp' = Snap("save", -1)
  /\ UNCHANGED <<props, harness>>

\* <button onClick={handleCancel}>, drawn in edit mode
CancelClick ==
  /\ isOpen
  /\ mode = "edit"
  /\ handleCancel
  /\ lastOp' = Snap("cancel", -1)
  /\ UNCHANGED <<props, harness>>

\* a checkbox of TaskListRenderer, drawn in view mode on the task lines of the draft
TaskClick(i) ==
  /\ isOpen
  /\ mode = "view"
  /\ HasToggleButton(localContent, i)
  /\ handleToggleTask(i)
  /\ lastOp' = Snap("toggle", i)
  /\ UNCHANGED <<props, harness>>

\* <button onClick={onStartAutoRun} disabled={!canStartAutoRun}>, drawn in view mode
\* when auto-run is not running
RunClick ==
  /\ isOpen
  /\ mode = "view"
  /\ ~isAutoRunning
  /\ canStartAutoRun
  /\ fired' = <<Fire("onStartAutoRun", NoArg)>>
  /\ lastOp' = Snap("run", -1)
  /\ UNCHANGED <<mode, localContent, content, props, harness>>

\* <button onClick={onStopAutoRun} disabled={isStopping}>, drawn in view mode when
\* auto-run is running
StopEnabled == ~isStopping

StopClick ==
  /\ isOpen
  /\ mode = "view"
  /\ isAutoRunning
  /\ StopEnabled
  /\ fired' = <<Fire("onStopAutoRun", NoArg)>>
  /\ lastOp' = Snap("stop", -1)
  /\ UNCHANGED <<mode, localContent, content, props, harness>>

\* <button onClick={onClose}>
CloseClick ==
  /\ isOpen
  /\ fired' = <<Fire("onClose", NoArg)>>
  /\ lastOp' = Snap("close", -1)
  /\ UNCHANGED <<mode, localContent, content, props, harness>>

\* the owner passes another content; the sync effect runs after the render
ContentChange(text) ==
  /\ text # content
  /\ content' = text
  /\ localContent' = AfterSync(localContent, content')
  /\ fired' = <<>>
  /\ lastOp' = Snap("content", -1)
  /\ UNCHANGED <<mode, props, harness>>

\* the owner passes another auto-run snapshot
AutoRunChange(a) ==
  /\ a # autoRunState
  /\ autoRunState' = a
  /\ fired' = <<>>
  /\ lastOp' = Snap("autorun", -1)
  /\ UNCHANGED <<mode, localContent, content, isSessionBusy, isOpen, harness>>

BusyChange ==
  /\ isSessionBusy' = ~isSessionBusy
  /\ fired' = <<>>
  /\ lastOp' = Snap("busy", -1)
  /\ UNCHANGED <<mode, localContent, content, autoRunState, isOpen, harness>>

\* isOpen; the hooks keep their state while the component renders null
OpenChange ==
  /\ isOpen' = ~isOpen
  /\ fired' = <<>>
  /\ lastOp' = Snap("open", -1)
  /\ UNCHANGED <<mode, localContent, content, autoRunState, isSessionBusy, harness>>

Init ==
  /\ mode = "view"
  /\ content \in Texts
  /\ localContent = content
  /\ autoRunState \in AutoRunStates
  /\ isSessionBusy \in BOOLEAN
  /\ isOpen \in BOOLEAN
  /\ ownerApplies \in BOOLEAN
  /\ fired = <<>>
  /\ lastOp = [op |-> "mount", idx |-> -1, mode |-> "view", draft |-> content,
               prop |-> content]
  /\ input = <<>>
  /\ applied = <<>>

Next ==
  \/ ViewClick
  \/ EditClick
  \/ \E text \in Texts : TextareaChange(text)
  \/ SaveClick
  \/ CancelClick
  \/ \E i \in 0..MaxIdx : TaskClick(i)
  \/ RunClick
  \/ StopClick
  \/ CloseClick
  \/ \E text \in Texts : ContentChange(text)
  \/ \E a \in AutoRunStates : AutoRunChange(a)
  \/ BusyChange
  \/ OpenChange

Spec == Init /\ [][Next]_vars

(* --------------- the toggle and the counters on every text ------------- *)

Alphabet == {" ", "\n", "-", "[", "]", "x"}

AllTexts == UNION {[1..n -> Alphabet] : n \in 0..MaxLen}

\* longer texts: markers as the placeholder writes them, upper-case X, indentation
S_Indented == <<" ", " ", "-", " ", "[", " ", "]", " ", "a">>

S_Upper == <<"-", " ", "[", "X", "]", " ", "a">>

S_Loose == <<"-", "[", " ", " ", "]", " ", " ", "a", "\n", "b">>

S_Bare == <<"-", " ", "[", " ", "]", "\n", "f", "o", "o">>

Samples == {T_Task, T_Two, S_Indented, S_Upper, S_Loose, S_Bare}

TextInit ==
  /\ input \in AllTexts \cup Samples
  /\ content = input
  /\ localContent = input
  /\ mode = "view"
  /\ autoRunState = NoAutoRun
  /\ isSessionBusy = FALSE
  /\ isOpen = TRUE
  /\ ownerApplies = TRUE
  /\ fired = <<>>
  /\ lastOp = [op |-> "mount", idx |-> -1, mode |-> "view", draft |-> input,
               prop |-> input]
  /\ applied = <<>>

\* handleToggleTask(i) called on the draft, again on the same line index
ApplyToggle(i) ==
  /\ Len(applied) < MaxApply
  /\ \A k \in DOMAIN applied : applied[k] = i
  /\ handleToggleTask(i)
  /\ applied' = Append(applied, i)
  /\ lastOp' = Snap("toggle", i)
  /\ UNCHANGED <<props, ownerApplies, input>>

TextNext == \E i \in 0..MaxIdx : ApplyToggle(i)

TextSpec == TextInit /\ [][TextNext]_vars

(* ------------------------------ claims -------------------------------- *)

\* C1: while mode is edit, a change of the content prop (with its sync effect) leaves
\* the draft as it was: after a content change that found mode = edit, localContent
\* is the draft the change found.
C1_DraftKeptWhileEditing ==
  (lastOp.op = "content" /\ lastOp.mode = "edit") => localContent = lastOp.draft

\* C2: the only mode transitions are view->edit by Edit, taken only while auto-run is
\* not running, and edit->view by Save (which fires onContentChange with the draft) or
\* by Cancel (which resets the draft to the content prop): every edit->view step
\* commits or discards the draft.
C2_ModeTransitions ==
  /\ (lastOp.mode = "view" /\ mode = "edit") =>
       (lastOp.op = "edit" /\ ~isAutoRunning)
  /\ (lastOp.mode = "edit" /\ mode = "view") =>
       \/ lastOp.op = "save" /\ fired = <<Fire("onContentChange", lastOp.draft)>>
       \/ lastOp.op = "cancel" /\ localContent = lastOp.prop /\ fired = <<>>

\* C3: with an owner that writes every onContentChange argument to the content prop,
\* in view mode the draft equals the content prop.
C3_ViewShowsCommitted ==
  (ownerApplies /\ mode = "view") => localContent = content

\* C4: Save, clicked in edit mode, fires onContentChange exactly once, with the draft
\* as it stood, and sets mode to view.
C4_SaveCommitsDraft ==
  lastOp.op = "save" =>
    /\ lastOp.mode = "edit"
    /\ fired = <<Fire("onContentChange", lastOp.draft)>>
    /\ mode = "view"

\* a Save of a draft that differed from the committed content
C4_Witness ==
  /\ lastOp.op = "save"
  /\ lastOp.mode = "edit"
  /\ lastOp.draft # lastOp.prop
  /\ fired = <<Fire("onContentChange", lastOp.draft)>>
  /\ mode = "view"

\* C5: Cancel, clicked in edit mode, sets the draft to the content prop and mode to
\* view, fires no callback and leaves the content prop as it was.
C5_CancelDiscardsDraft ==
  lastOp.op = "cancel" =>
    /\ lastOp.mode = "edit"
    /\ localContent = lastOp.prop
    /\ content = lastOp.prop
    /\ mode = "view"
    /\ fired = <<>>

\* a Cancel of a draft that differed from the committed content
C5_Witness ==
  /\ lastOp.op = "cancel"
  /\ lastOp.draft # lastOp.prop
  /\ localContent = content
  /\ mode = "view"

\* C6: onStartAutoRun is invoked only when auto-run is not running, the session is not
\* busy and the unchecked count is positive; onStopAutoRun only when auto-run is
\* running and not stopping.
C6_AutoRunGated ==
  \A k \in DOMAIN fired :
    /\ fired[k].cb = "onStartAutoRun" =>
         (~isAutoRunning /\ ~isSessionBusy /\ uncheckedCount > 0)
    /\ fired[k].cb = "onStopAutoRun" => (isAutoRunning /\ ~isStopping)

\* a start request that went out
C6_Witness ==
  /\ fired = <<Fire("onStartAutoRun", NoArg)>>
  /\ lastOp.op = "run"
  /\ uncheckedCount > 0

\* the line with its leading whitespace, the marker spelled "- [ ] ", and what follows
\* the first "]" and the whitespace after it
C7_FirstNonSpace(line, from) ==
  CHOOSE j \in from..(Len(line) + 1) :
    /\ \A k \in from..(j - 1) : line[k] \in WhiteSpace
    /\ j = Len(line) + 1 \/ line[j] \notin WhiteSpace

C7_Canonical(line) ==
  LET close == CHOOSE j \in 1..Len(line) :
                 line[j] = "]" /\ \A k \in 1..(j - 1) : line[k] # "]"
  IN  SubSeq(line, 1, C7_FirstNonSpace(line, 1) - 1)
        \o <<"-", " ", "[", " ", "]", " ">>
        \o SubSeq(line, C7_FirstNonSpace(line, close + 1), Len(line))

\* handleToggleTask was applied twice to line i of the input, an unchecked task line
C7_ToggledTwice(i) ==
  /\ applied = <<i, i>>
  /\ i + 1 \in DOMAIN SplitLines(input)
  /\ MatchUncheckedLine(SplitLines(input)[i + 1])

\* C7 as stated: toggling an unchecked task line twice gives back the content
\* character for character, whatever the spacing of the marker.
C7_ToggleTwiceRestores ==
  \A i \in 0..MaxIdx : C7_ToggledTwice(i) => localContent = input

\* C7 as amended: toggling an unchecked task line twice leaves the other lines alone
\* and gives line i its leading whitespace, the marker spelled "- [ ] ", and the text
\* that followed the marker and its whitespace; the content is the input exactly when
\* the line was already spelled that way.
C7_ToggleTwiceCanonical ==
  \A i \in 0..MaxIdx : C7_ToggledTwice(i) =>
    /\ SplitLines(localContent) =
         [SplitLines(input) EXCEPT ![i + 1] = C7_Canonical(@)]
    /\ localContent = input <=>
         SplitLines(input)[i + 1] = C7_Canonical(SplitLines(input)[i + 1])

\* an unchecked task line with a loosely spelled marker, toggled twice
C7_Witness ==
  \E i \in 0..MaxIdx : C7_ToggledTwice(i) /\ localContent # input

\* C8: handleToggleTask on a line that matches neither task-line pattern returns the
\* content unchanged.
C8_NonTaskToggleIsNoOp ==
  \A i \in 0..MaxIdx :
    (applied = <<i>> /\ ~HasToggleButton(input, i)) => localContent = input

\* C9: totalTasks is the number of lines of the text that match the unchecked or the
\* checked pattern of the renderer.
C9_TotalIsTaskLineCount ==
  totalTasks =
    Cardinality({k \in DOMAIN SplitLines(localContent) :
                   \/ MatchUncheckedLine(SplitLines(localContent)[k])
                   \/ MatchCheckedLine(SplitLines(localContent)[k])})

\* C10 as stated: edit mode and a running auto-run never coexist.
C10_EditExcludesAutoRun == mode = "edit" => ~isAutoRunning

\* C10 as amended: edit mode is entered only by Edit and only while auto-run is not
\* running; a change of the auto-run state leaves the mode as it is.
C10_EditEnteredOnlyWhenIdle ==
  /\ (lastOp.mode = "view" /\ mode = "edit") =>
       (lastOp.op = "edit" /\ ~isAutoRunning)
  /\ lastOp.op = "autorun" => mode = lastOp.mode

\* Edit clicked in view mode
C10_Witness ==
  /\ lastOp.op = "edit"
  /\ lastOp.mode = "view"
  /\ mode = "edit"
  /\ ~isAutoRunning

====
